---- MODULE Spec2Model ----
(***************************************************************************)
(* Model of src/utils/string.rs: take_lines and take_anchored_lines.       *)
(*                                                                         *)
(* A text is a sequence of tokens.  Each token stands for a fixed piece of *)
(* text, so that the regular expressions of take_anchored_lines and the    *)
(* line splitting of str::lines can be evaluated on it:                    *)
(*   "K" = ANCHOR   "E" = _END   ":" = :   " " = a blank                   *)
(*   "a", "b", "x" = one lower-case letter   "\r" = CR   "\n" = LF         *)
(***************************************************************************)
EXTENDS Integers, Sequences, FiniteSets, TLC

VARIABLES
    s,             \* the &str argument of the current call
    src,           \* where s comes from: "input", or the function whose output it is
    op,            \* the function called: "none", "take_lines", "take_anchored_lines"
    range,         \* the range argument of take_lines
    anchor,        \* the anchor argument of take_anchored_lines
    pc,            \* "idle", "loop", "join", "returned"
    pos,           \* number of lines the for loop has taken from s.lines()
    anchor_found,  \* local of take_anchored_lines
    retained,      \* local of take_anchored_lines
    out,           \* the returned String
    panicked       \* the call ended in a panic instead of returning

vars == <<s, src, op, range, anchor, pc, pos, anchor_found, retained, out, panicked>>

----------------------------------------------------------------------------
(* Bounds of the model *)

\* longest input, in lines joined by "\n"
MaxLines == 4

\* largest ordinary line index used as a range bound
MaxIdx == 2

\* width of usize in the model
UsizeBits == 3

USIZE_MAX == 2^UsizeBits - 1

----------------------------------------------------------------------------
(* Texts *)

LF == "\n"
CR == "\r"

\* itertools::Itertools::join(sep) on an iterator of &str
RECURSIVE Join(_, _)
Join(ls, sep) ==
    IF ls = <<>> THEN <<>>
    ELSE IF Len(ls) = 1 THEN ls[1]
    ELSE ls[1] \o <<sep>> \o Join(Tail(ls), sep)

\* str::lines: split at "\n" or "\r\n", terminator not included, the final
\* terminator is optional, a "\r" not followed by "\n" stays in its line.
RECURSIVE LinesFrom(_, _, _)
LinesFrom(t, i, cur) ==
    IF i > Len(t) THEN (IF cur = <<>> THEN <<>> ELSE <<cur>>)
    ELSE IF t[i] = LF
         THEN LET line == IF cur # <<>> /\ cur[Len(cur)] = CR
                          THEN SubSeq(cur, 1, Len(cur) - 1)
                          ELSE cur
              IN  <<line>> \o LinesFrom(t, i + 1, <<>>)
         ELSE LinesFrom(t, i + 1, Append(cur, t[i]))

Lines(t) == LinesFrom(t, 1, <<>>)

\* Iterator::skip(n)
Skip(ls, n) == IF n >= Len(ls) THEN <<>> ELSE SubSeq(ls, n + 1, Len(ls))

\* Iterator::take(n)
Take(ls, n) == IF n >= Len(ls) THEN ls ELSE SubSeq(ls, 1, n)

\* usize::saturating_sub
saturating_sub(x, y) == IF x < y THEN 0 ELSE x - y

----------------------------------------------------------------------------
(* take_lines *)

Unbounded == [kind |-> "Unbounded", n |-> 0]
Included(n) == [kind |-> "Included", n |-> n]
Excluded(n) == [kind |-> "Excluded", n |-> n]

Panic == [panicked |-> TRUE, value |-> <<>>]
Returns(v) == [panicked |-> FALSE, value |-> v]

\* n + 1 on usize.  With overflow checks (debug builds) an overflow panics,
\* without them (release builds) it wraps.  -1 stands for the panic.
AddOne(n, overflow_checks) ==
    IF n + 1 > USIZE_MAX
    THEN (IF overflow_checks THEN -1 ELSE (n + 1) % (USIZE_MAX + 1))
    ELSE n + 1

\* A plausible bug: line indices taken as one-based.
take_lines_OneBased(t, r, overflow_checks) ==
    LET start == CASE r.start.kind = "Excluded" -> AddOne(r.start.n, overflow_checks)
                   [] r.start.kind = "Included" -> r.start.n
                   [] OTHER -> 1
        lines == Skip(Lines(t), start)
        end1  == AddOne(r.end.n, overflow_checks)
    IN  IF start = -1 THEN Panic
        ELSE CASE r.end.kind = "Excluded" ->
                    Returns(Join(Take(lines, saturating_sub(r.end.n, start)), LF))
               [] r.end.kind = "Included" ->
                    IF end1 = -1 THEN Panic
                    ELSE Returns(Join(Take(lines, saturating_sub(end1, start)), LF))
               [] OTHER -> Returns(Join(lines, LF))

\* A plausible bug: every line written with its terminator.
take_lines_Terminated(t, r, overflow_checks) ==
    LET start == CASE r.start.kind = "Excluded" -> AddOne(r.start.n, overflow_checks)
                   [] r.start.kind = "Included" -> r.start.n
                   [] OTHER -> 0
        lines == Skip(Lines(t), start)
        end1  == AddOne(r.end.n, overflow_checks)
        term(ls) == [i \in 1..Len(ls) |-> Append(ls[i], LF)]
    IN  IF start = -1 THEN Panic
        ELSE CASE r.end.kind = "Excluded" ->
                    Returns(Join(Take(lines, saturating_sub(r.end.n, start)), LF))
               [] r.end.kind = "Included" ->
                    IF end1 = -1 THEN Panic
                    ELSE Returns(Join(Take(lines, saturating_sub(end1, start)), LF))
               [] OTHER -> Returns(Join(term(lines), LF))

take_lines(t, r, overflow_checks) ==
    LET start == CASE r.start.kind = "Excluded" -> AddOne(r.start.n, overflow_checks)
                   [] r.start.kind = "Included" -> r.start.n
                   [] OTHER -> 0
        lines == Skip(Lines(t), start)
        end1  == AddOne(r.end.n, overflow_checks)
    IN  IF start = -1 THEN Panic
        ELSE CASE r.end.kind = "Excluded" ->
                    Returns(Join(Take(lines, saturating_sub(r.end.n, start)), LF))
               [] r.end.kind = "Included" ->
                    IF end1 = -1 THEN Panic
                    ELSE Returns(Join(Take(lines, saturating_sub(end1, start)), LF))
               [] OTHER -> Returns(Join(lines, LF))

----------------------------------------------------------------------------
(* The regular expressions of take_anchored_lines *)

\* \w, _ and - : the tokens made of name characters only
IsWord(c) == c \in {"K", "E", "a", "b", "x"}

\* \s
IsSpace(c) == c \in {" ", CR}

\* the literal prefix of RE_START: ANCHOR:
RE_START == <<"K", ":">>

\* the literal prefix of RE_END: ANCHOR_END:
RE_END == <<"K", "E", ":">>

\* \s* : the index of the first token at or after j that is not white space
RECURSIVE SkipSpace(_, _)
SkipSpace(l, j) ==
    IF j <= Len(l) /\ IsSpace(l[j]) THEN SkipSpace(l, j + 1) ELSE j

\* (?P<anchor_name>[\w_-]+) : the longest run of name tokens from j
RECURSIVE NameAt(_, _)
NameAt(l, j) ==
    IF j <= Len(l) /\ IsWord(l[j]) THEN <<l[j]>> \o NameAt(l, j + 1) ELSE <<>>

\* the pattern  lit \s* (?P<anchor_name>[\w_-]+)  matches l at index i
MatchAt(re, l, i) ==
    /\ i + Len(re) - 1 <= Len(l)
    /\ \A k \in 1..Len(re) : l[i + k - 1] = re[k]
    /\ NameAt(l, SkipSpace(l, i + Len(re))) # <<>>

\* Regex::captures(l)["anchor_name"] of the leftmost match; <<>> for None
captures(re, l) ==
    LET ms == {i \in 1..Len(l) : MatchAt(re, l, i)}
        i0 == CHOOSE i \in ms : \A j \in ms : i <= j
    IN  IF ms = {} THEN <<>> ELSE NameAt(l, SkipSpace(l, i0 + Len(re)))

\* Regex::is_match(l)
is_match(re, l) == captures(re, l) # <<>>

----------------------------------------------------------------------------
(* take_anchored_lines: one iteration of `for l in s.lines()` *)

Scanned(found, kept, brk) == [anchor_found |-> found, retained |-> kept, brk |-> brk]

\* A plausible bug: a foreign end marker kept as content.
ScanLine_KeepForeignEnd(l, a, found, kept) ==
    IF found
    THEN IF captures(RE_END, l) # <<>>
         THEN IF captures(RE_END, l) = a
              THEN Scanned(found, kept, TRUE)
              ELSE Scanned(found, Append(kept, l), FALSE)
         ELSE IF ~is_match(RE_START, l)
              THEN Scanned(found, Append(kept, l), FALSE)
              ELSE Scanned(found, kept, FALSE)
    ELSE IF captures(RE_START, l) # <<>> /\ captures(RE_START, l) = a
         THEN Scanned(TRUE, kept, FALSE)
         ELSE Scanned(found, kept, FALSE)

\* A plausible bug: any start marker opens the capture.
ScanLine_AnyStartOpens(l, a, found, kept) ==
    IF found
    THEN IF captures(RE_END, l) # <<>>
         THEN IF captures(RE_END, l) = a
              THEN Scanned(found, kept, TRUE)
              ELSE Scanned(found, kept, FALSE)
         ELSE IF ~is_match(RE_START, l)
              THEN Scanned(found, Append(kept, l), FALSE)
              ELSE Scanned(found, kept, FALSE)
    ELSE IF captures(RE_START, l) # <<>>
         THEN Scanned(TRUE, kept, FALSE)
         ELSE Scanned(found, kept, FALSE)

\* A plausible bug: any end marker closes the capture.
ScanLine_AnyEndCloses(l, a, found, kept) ==
    IF found
    THEN IF captures(RE_END, l) # <<>>
         THEN Scanned(found, kept, TRUE)
         ELSE IF ~is_match(RE_START, l)
              THEN Scanned(found, Append(kept, l), FALSE)
              ELSE Scanned(found, kept, FALSE)
    ELSE IF captures(RE_START, l) # <<>> /\ captures(RE_START, l) = a
         THEN Scanned(TRUE, kept, FALSE)
         ELSE Scanned(found, kept, FALSE)

\* A plausible bug: the matching end marker is skipped without `break`.
ScanLine_NoBreak(l, a, found, kept) ==
    IF found
    THEN IF captures(RE_END, l) # <<>>
         THEN Scanned(found, kept, FALSE)
         ELSE IF ~is_match(RE_START, l)
              THEN Scanned(found, Append(kept, l), FALSE)
              ELSE Scanned(found, kept, FALSE)
    ELSE IF captures(RE_START, l) # <<>> /\ captures(RE_START, l) = a
         THEN Scanned(TRUE, kept, FALSE)
         ELSE Scanned(found, kept, FALSE)

\* A plausible bug: start markers inside the capture are kept as content.
ScanLine_KeepStart(l, a, found, kept) ==
    IF found
    THEN IF captures(RE_END, l) # <<>>
         THEN IF captures(RE_END, l) = a
              THEN Scanned(found, kept, TRUE)
              ELSE Scanned(found, kept, FALSE)
         ELSE Scanned(found, Append(kept, l), FALSE)
    ELSE IF captures(RE_START, l) # <<>> /\ captures(RE_START, l) = a
         THEN Scanned(TRUE, kept, FALSE)
         ELSE Scanned(found, kept, FALSE)

ScanLine(l, a, found, kept) ==
    IF found
    THEN IF captures(RE_END, l) # <<>>
         THEN IF captures(RE_END, l) = a
              THEN Scanned(found, kept, TRUE)
              ELSE Scanned(found, kept, FALSE)
         ELSE IF ~is_match(RE_START, l)
              THEN Scanned(found, Append(kept, l), FALSE)
              ELSE Scanned(found, kept, FALSE)
    ELSE IF captures(RE_START, l) # <<>> /\ captures(RE_START, l) = a
         THEN Scanned(TRUE, kept, FALSE)
         ELSE Scanned(found, kept, FALSE)

----------------------------------------------------------------------------
(* Inputs *)

\* lines of the inputs of take_lines: empty, plain, ending in CR, a start marker
RangeLines == {<<>>, <<"x">>, <<"x", CR>>, <<"K", ":", "a">>}

\* lines of the inputs of take_anchored_lines: empty, plain,
\* "ANCHOR:a", "ANCHOR: b", "ANCHOR_END:a", "ANCHOR_END: b",
\* "ANCHOR_END:a ANCHOR:b"
AnchorLines ==
    { <<>>, <<"x">>,
      <<"K", ":", "a">>, <<"K", ":", " ", "b">>,
      <<"K", "E", ":", "a">>, <<"K", "E", ":", " ", "b">>,
      <<"K", "E", ":", "a", " ", "K", ":", "b">> }

\* the texts of at most MaxLines lines of L joined by "\n"
Texts(L) ==
    UNION {{Join(ls, LF) : ls \in [1..k -> L]} : k \in 0..MaxLines}

\* anchor names
Anchors == {<<"a">>, <<"b">>}

Idx == (0..MaxIdx) \cup {USIZE_MAX}

Bounds == {Unbounded} \cup {Included(n) : n \in Idx} \cup {Excluded(n) : n \in Idx}

Ranges == [start : Bounds, end : Bounds]

FullRange == [start |-> Unbounded, end |-> Unbounded]

----------------------------------------------------------------------------
(* The state machine *)

Idle(T) ==
    /\ s \in T
    /\ src = "input"
    /\ op = "none"
    /\ range = FullRange
    /\ anchor = <<>>
    /\ pc = "idle"
    /\ pos = 0
    /\ anchor_found = FALSE
    /\ retained = <<>>
    /\ out = <<>>
    /\ panicked = FALSE

InitRange == Idle(Texts(RangeLines))

InitAnchor == Idle(Texts(AnchorLines))

\* a call take_lines(s, r)
CallTakeLines ==
    /\ pc = "idle"
    /\ \E r \in Ranges, overflow_checks \in BOOLEAN :
         LET res == take_lines(s, r, overflow_checks)
         IN  /\ range' = r
             /\ out' = res.value
             /\ panicked' = res.panicked
    /\ op' = "take_lines"
    /\ pc' = "returned"
    /\ UNCHANGED <<s, src, anchor, pos, anchor_found, retained>>

\* a call take_anchored_lines(s, a), up to the loop
CallTakeAnchoredLines ==
    /\ pc = "idle"
    /\ \E a \in Anchors : anchor' = a
    /\ op' = "take_anchored_lines"
    /\ retained' = <<>>
    /\ anchor_found' = FALSE
    /\ pos' = 0
    /\ pc' = "loop"
    /\ UNCHANGED <<s, src, range, out, panicked>>

\* one iteration of the for loop
LoopBody ==
    /\ pc = "loop"
    /\ pos < Len(Lines(s))
    /\ LET r == ScanLine(Lines(s)[pos + 1], anchor, anchor_found, retained)
       IN  /\ anchor_found' = r.anchor_found
           /\ retained' = r.retained
           /\ pc' = IF r.brk THEN "join" ELSE "loop"
    /\ pos' = pos + 1
    /\ UNCHANGED <<s, src, op, range, anchor, out, panicked>>

\* s.lines() is exhausted
LoopEnd ==
    /\ pc = "loop"
    /\ pos = Len(Lines(s))
    /\ pc' = "join"
    /\ UNCHANGED <<s, src, op, range, anchor, pos, anchor_found, retained, out, panicked>>

\* retained.join("\n")
JoinRetained ==
    /\ pc = "join"
    /\ out' = Join(retained, LF)
    /\ pc' = "returned"
    /\ UNCHANGED <<s, src, op, range, anchor, pos, anchor_found, retained, panicked>>

\* the caller runs take_lines(.., ..) on the String a call returned
Reapply ==
    /\ pc = "returned"
    /\ src = "input"
    /\ ~panicked
    /\ s' = out
    /\ src' = op
    /\ op' = "take_lines"
    /\ range' = FullRange
    /\ \E overflow_checks \in BOOLEAN :
         LET res == take_lines(out, FullRange, overflow_checks)
         IN  /\ out' = res.value
             /\ panicked' = res.panicked
    /\ anchor' = <<>>
    /\ pos' = 0
    /\ anchor_found' = FALSE
    /\ retained' = <<>>
    /\ pc' = "returned"

NextRange ==
    \/ CallTakeLines
    \/ CallTakeAnchoredLines
    \/ LoopBody
    \/ LoopEnd
    \/ JoinRetained
    \/ Reapply

NextAnchor ==
    \/ CallTakeAnchoredLines
    \/ LoopBody
    \/ LoopEnd
    \/ JoinRetained

SpecRange == InitRange /\ [][NextRange]_vars

SpecAnchor == InitAnchor /\ [][NextAnchor]_vars

----------------------------------------------------------------------------
(* Vocabulary of the properties *)

TakeLinesReturned == op = "take_lines" /\ pc = "returned"

AnchoredReturned == op = "take_anchored_lines" /\ pc = "returned"

\* l is a start marker for the requested anchor
StartsAnchor(l) == captures(RE_START, l) = anchor

\* l is an end marker for the requested anchor
EndsAnchor(l) == captures(RE_END, l) = anchor

\* l is an end marker for another anchor
ForeignEnd(l) == is_match(RE_END, l) /\ ~EndsAnchor(l)

\* l is no marker line at all
Content(l) == ~is_match(RE_START, l) /\ ~is_match(RE_END, l)

\* index in L of the first start marker for the requested anchor, 0 if none
FirstStart(L) ==
    LET S == {i \in 1..Len(L) : StartsAnchor(L[i])}
    IN  IF S = {} THEN 0 ELSE CHOOSE i \in S : \A j \in S : i <= j

\* index in L of the first end marker for the requested anchor after line i,
\* 0 if none
FirstEndAfter(L, i) ==
    LET S == {j \in (i + 1)..Len(L) : EndsAnchor(L[j])}
    IN  IF S = {} THEN 0 ELSE CHOOSE j \in S : \A k \in S : j <= k

\* the loop is about to take a line, or has just taken it, while capturing
CapturingStep == pc = "loop" /\ anchor_found /\ pos' = pos + 1

CurrentLine == Lines(s)[pos + 1]

\* the mathematical start index and one-past-the-end index of a range
ResolvedStart(r) == IF r.start.kind = "Excluded" THEN r.start.n + 1 ELSE r.start.n

ResolvedEnd(r) == IF r.end.kind = "Included" THEN r.end.n + 1 ELSE r.end.n

\* t keeps its last line terminator out of reach of str::lines: it does not
\* end with "\n" and none of its lines ends with "\r"
NoTerminatorLost(t) ==
    /\ t # <<>> => t[Len(t)] \notin {LF, CR}
    /\ \A i \in 1..(Len(t) - 1) : ~(t[i] = CR /\ t[i + 1] = LF)

----------------------------------------------------------------------------
(* C1 *)

\* C1, as claimed: a line scanned while capturing that matches the end-marker
\* pattern with a captured name different from the anchor is retained in
\* the output and does not close the capture.
C1_ForeignEndRetained ==
    [][CapturingStep /\ ForeignEnd(CurrentLine)
         => /\ retained' = Append(retained, CurrentLine)
            /\ pc' = "loop"
            /\ anchor_found']_vars

\* C1, amended: a line scanned while capturing that matches the end-marker
\* pattern with a captured name different from the anchor is left out of the
\* output and does not close the capture.
C1_ForeignEndSkipped ==
    [][CapturingStep /\ ForeignEnd(CurrentLine)
         => /\ retained' = retained
            /\ pc' = "loop"
            /\ anchor_found']_vars

\* a call returned after it scanned a foreign end marker while capturing,
\* with content retained before and after it
C1_Witness ==
    /\ AnchoredReturned
    /\ FirstStart(Lines(s)) > 0
    /\ \E i \in (FirstStart(Lines(s)) + 1)..pos :
         /\ ForeignEnd(Lines(s)[i])
         /\ \E h \in (FirstStart(Lines(s)) + 1)..(i - 1) : Lines(s)[h] = <<"x">>
         /\ \E k \in (i + 1)..pos : Lines(s)[k] = <<"x">>
    /\ out = <<"x", LF, "x">>

----------------------------------------------------------------------------
(* C2 *)

\* C2, as claimed: take_lines with the full range returns exactly its input,
\* for every input.
C2_FullRangeIdentity ==
    TakeLinesReturned /\ src = "input" /\ range = FullRange
        => ~panicked /\ out = s

\* C2, amended: take_lines with the full range returns exactly its input when
\* the input does not end with a newline and none of its lines ends with a
\* carriage return (the empty text included).
C2_FullRangeIdentityUnterminated ==
    TakeLinesReturned /\ src = "input" /\ range = FullRange /\ NoTerminatorLost(s)
        => ~panicked /\ out = s

\* the full range returned a text of several lines, one of them empty
C2_Witness ==
    /\ TakeLinesReturned /\ src = "input" /\ range = FullRange
    /\ NoTerminatorLost(s)
    /\ Len(Lines(s)) >= 3
    /\ \E i \in 1..Len(Lines(s)) : Lines(s)[i] = <<>>
    /\ out = s

----------------------------------------------------------------------------
(* C3 *)

\* C3, as claimed: take_lines returns a string for every text and every
\* range; it never fails.
C3_Total == TakeLinesReturned => ~panicked

----------------------------------------------------------------------------
(* C4 *)

\* C4, as claimed: take_lines with the full range, applied to the output of
\* take_lines or of take_anchored_lines, returns that output unchanged.
C4_Idempotent ==
    pc = "returned" /\ src # "input" => ~panicked /\ out = s

\* C4, amended: take_lines with the full range, applied to the output of
\* take_lines or of take_anchored_lines, returns that output unchanged when
\* the output does not end with a newline (its last line is not empty, or is
\* its only line) and none of its lines ends with a carriage return.
C4_IdempotentUnterminated ==
    pc = "returned" /\ src # "input" /\ NoTerminatorLost(s)
        => ~panicked /\ out = s

\* the output of take_anchored_lines, of several lines with an empty one
\* among them, went through take_lines unchanged
C4_Witness ==
    /\ pc = "returned" /\ src = "take_anchored_lines"
    /\ NoTerminatorLost(s)
    /\ Len(Lines(s)) >= 3
    /\ \E i \in 1..Len(Lines(s)) : Lines(s)[i] = <<>>
    /\ out = s

----------------------------------------------------------------------------
(* C5 *)

\* C5, as claimed: a range whose resolved start index is greater than its
\* resolved end makes take_lines return the empty string, never an error.
C5_InvertedIsEmpty ==
    /\ TakeLinesReturned /\ src = "input"
    /\ range.end.kind # "Unbounded"
    /\ ResolvedStart(range) > ResolvedEnd(range)
    => ~panicked /\ out = <<>>

----------------------------------------------------------------------------
(* C6 *)

\* C6, as claimed: with n the number of lines of the text, an end bound
\* beyond n (exclusive e > n, inclusive e >= n) gives the result of the same
\* start with the exclusive end n, and a start beyond n gives the empty string.
C6_Clamped ==
    TakeLinesReturned /\ src = "input" =>
        LET n == Len(Lines(s))
            clamped == [start |-> range.start, end |-> Excluded(n)]
        IN  /\ (range.end.kind = "Excluded" /\ range.end.n > n)
                   \/ (range.end.kind = "Included" /\ range.end.n >= n)
                => /\ ~panicked
                   /\ \E overflow_checks \in BOOLEAN :
                        take_lines(s, clamped, overflow_checks) = Returns(out)
            /\ ResolvedStart(range) > n => ~panicked /\ out = <<>>

----------------------------------------------------------------------------
(* C7 *)

\* C7: while no start marker for the anchor has been scanned the scan is
\* searching and nothing is retained, whatever end markers and foreign
\* start markers it meets; a text without a start marker for the anchor
\* gives the empty string.
C7_NothingWithoutStart ==
    op = "take_anchored_lines" =>
        LET L == Lines(s)
        IN  /\ anchor_found <=> \E i \in 1..pos : StartsAnchor(L[i])
            /\ ~anchor_found => retained = <<>>
            /\ pc = "returned" /\ FirstStart(L) = 0 => ~panicked /\ out = <<>>

\* a call returned the empty string for a text with an end marker for the
\* anchor and a start marker for another anchor, each followed by content,
\* but no start marker for the anchor
C7_Witness ==
    /\ AnchoredReturned
    /\ FirstStart(Lines(s)) = 0
    /\ \E i, j, k \in 1..Len(Lines(s)) :
         /\ EndsAnchor(Lines(s)[i])
         /\ is_match(RE_START, Lines(s)[j])
         /\ i < k /\ j < k
         /\ Lines(s)[k] = <<"x">>
    /\ out = <<>>

----------------------------------------------------------------------------
(* C8 *)

\* C8: when the first start marker for the anchor is followed by no end
\* marker for the anchor, the call returns, joined by single newlines and in
\* their order, the lines after that start marker that are no marker lines.
C8_Unterminated ==
    AnchoredReturned =>
        LET L == Lines(s)
            i == FirstStart(L)
        IN  i > 0 /\ FirstEndAfter(L, i) = 0
                => /\ ~panicked
                   /\ out = Join(SelectSeq(SubSeq(L, i + 1, Len(L)), Content), LF)

\* an unterminated capture with a marker line between two content lines
C8_Witness ==
    /\ AnchoredReturned
    /\ LET L == Lines(s)
           i == FirstStart(L)
       IN  /\ i > 0 /\ FirstEndAfter(L, i) = 0
           /\ Len(L) = i + 3
           /\ L[i + 1] = <<"x">>
           /\ ~Content(L[i + 2])
           /\ L[i + 3] = <<"x">>
    /\ out = <<"x", LF, "x">>

----------------------------------------------------------------------------
(* C9 *)

\* C9: the scan ends at the first end marker for the anchor met while
\* capturing: no further line is taken, and the output is made of lines
\* strictly between the start marker and that end marker only.
C9_StopsAtEnd ==
    op = "take_anchored_lines" /\ pc \in {"join", "returned"} =>
        LET L == Lines(s)
            i == FirstStart(L)
            j == FirstEndAfter(L, i)
        IN  i > 0 /\ j > 0
                => /\ pos = j
                   /\ retained = SelectSeq(SubSeq(L, i + 1, j - 1), Content)
                   /\ pc = "returned" => ~panicked /\ out = Join(retained, LF)

\* a call returned what it had retained at the end marker although the
\* anchor is opened again after it and content follows
C9_Witness ==
    /\ AnchoredReturned
    /\ LET L == Lines(s)
           i == FirstStart(L)
           j == FirstEndAfter(L, i)
       IN  /\ i > 0 /\ j > 0
           /\ \E h, k \in (j + 1)..Len(L) :
                /\ StartsAnchor(L[h])
                /\ h < k
                /\ L[k] = <<"x">>
           /\ out = Join(SelectSeq(SubSeq(L, i + 1, j - 1), Content), LF)

----------------------------------------------------------------------------
(* C10 *)

\* C10, as claimed: while capturing, a line that matches the start-marker
\* pattern is left out of the output and capture neither stops nor
\* restarts; content lines keep being retained after what was retained.
C10_FlatScan ==
    [][CapturingStep
         => /\ is_match(RE_START, CurrentLine)
                => retained' = retained /\ pc' = "loop" /\ anchor_found'
            /\ Content(CurrentLine)
                => /\ retained' = Append(retained, CurrentLine)
                   /\ pc' = "loop"
                   /\ anchor_found']_vars

\* C10, amended: while capturing, a line that matches the start-marker
\* pattern and is no end marker for the anchor is left out of the output and
\* capture neither stops nor restarts; content lines keep being retained
\* after what was retained.
C10_FlatScanUnlessEnd ==
    [][CapturingStep
         => /\ is_match(RE_START, CurrentLine) /\ ~EndsAnchor(CurrentLine)
                => retained' = retained /\ pc' = "loop" /\ anchor_found'
            /\ Content(CurrentLine)
                => /\ retained' = Append(retained, CurrentLine)
                   /\ pc' = "loop"
                   /\ anchor_found']_vars

\* a capture that met the start marker of its own anchor again, with
\* content retained before and after it
C10_Witness ==
    /\ AnchoredReturned
    /\ FirstStart(Lines(s)) > 0
    /\ \E i \in (FirstStart(Lines(s)) + 1)..pos :
         /\ StartsAnchor(Lines(s)[i])
         /\ \E h \in (FirstStart(Lines(s)) + 1)..(i - 1) : Lines(s)[h] = <<"x">>
         /\ \E k \in (i + 1)..pos : Lines(s)[k] = <<"x">>
    /\ out = <<"x", LF, "x">>

====
